---------------------------- MODULE Spec2Model ----------------------------
(***************************************************************************)
(* Model of homeassistant/components/upb/config_flow.py: the UPB PIM       *)
(* config flow.  A flow instance takes submissions (async_step_user,       *)
(* async_step_import); each submission checks the submitted URL against    *)
(* the hosts of the existing config entries, validates it by a connection  *)
(* attempt bounded by VALIDATE_TIMEOUT (_validate_input), and ends by      *)
(* showing the form again, aborting, or creating a config entry.           *)
(*                                                                         *)
(* Strings that the code takes apart (URLs, addresses) are sequences of    *)
(* tokens: a name ("tcp", "h1", "2101") or one of the delimiters ":" and   *)
(* "/".  "tcp://h1:2101" is <<"tcp", ":", "/", "/", "h1", ":", "2101">>.   *)
(***************************************************************************)
EXTENDS Integers, Sequences, FiniteSets, TLC

\* ------------------------------------------------------------------ bounds

\* Number of flow instances that are started.
NumFlows == 3

Flows == 1..NumFlows

\* ------------------------------------------------------- program constants

VALIDATE_TIMEOUT == 15

PROTOCOL_MAP ==
    ("TCP" :> <<"tcp", ":", "/", "/">>) @@
    ("Serial port" :> <<"serial", ":", "/", "/">>)

\* ------------------------------------------------------------------ inputs

\* What DATA_SCHEMA lets through to async_step_user: a protocol of
\* PROTOCOL_MAP, an address and a file path.  "tcp://h1" and
\* "serial://H1:2101" have the same hostname; a device path has none.
UserInputs ==
    { [protocol |-> "TCP", address |-> <<"h1">>, file_path |-> "upb.upe"],
      [protocol |-> "Serial port", address |-> <<"H1", ":", "2101">>, file_path |-> ""],
      [protocol |-> "TCP", address |-> <<"h2">>, file_path |-> "upb.upe"],
      [protocol |-> "Serial port", address |-> <<"/", "dev", "/", "ttyS0">>,
       file_path |-> "upb.upe"] }

\* What async_step_import is handed: a pre-built record with the URL; one
\* of them carries a protocol and an address as well.
ImportInputs ==
    { [host |-> <<"tcp", ":", "/", "/", "h1", "/", "x">>, file_path |-> "upb.upe"],
      [host |-> <<"tcp", ":", "/", "/", "h3">>, protocol |-> "Serial port",
       address |-> <<"h2">>, file_path |-> "upb.upe"] }

\* upb.network_id values the device controller can report.
NetworkIds == { "N1", "N2" }

NoInput == [none |-> TRUE]

\* ------------------------------------------------------------- urlparse

\* Index of the first occurrence of token t in s, 0 when there is none.
Find(s, t) ==
    IF \E i \in 1..Len(s) : s[i] = t
    THEN CHOOSE i \in 1..Len(s) : s[i] = t /\ \A j \in 1..(i - 1) : s[j] # t
    ELSE 0

\* str.lower() on one token.
Lower(t) ==
    CASE t = "H1" -> "h1"
      [] t = "H2" -> "h2"
      [] OTHER -> t

IsDelimiter(t) == t \in { ":", "/" }

\* urlsplit: the text after "scheme:" when the text before the first ":" is
\* a non-empty run of scheme characters, else the whole text.
AfterScheme(url) ==
    LET i == Find(url, ":")
    IN IF i > 1 /\ \A j \in 1..(i - 1) : ~IsDelimiter(url[j])
       THEN SubSeq(url, i + 1, Len(url))
       ELSE url

\* urlsplit: the netloc is what follows a leading "//" up to the next "/".
Netloc(url) ==
    LET rest == AfterScheme(url)
    IN IF Len(rest) >= 2 /\ rest[1] = "/" /\ rest[2] = "/"
       THEN LET tail == SubSeq(rest, 3, Len(rest))
                k == Find(tail, "/")
            IN IF k = 0 THEN tail ELSE SubSeq(tail, 1, k - 1)
       ELSE << >>

\* urlparse(url).hostname: the netloc up to its first ":", lower-cased; None
\* (here the empty sequence, which hostname never returns) when it is empty.
Hostname(url) ==
    LET netloc == Netloc(url)
        k == Find(netloc, ":")
        host == IF k = 0 THEN netloc ELSE SubSeq(netloc, 1, k - 1)
    IN [i \in 1..Len(host) |-> Lower(host[i])]

\* -------------------------------------------------------------- helpers

HasKey(data, key) == key \in DOMAIN data

\* Variant: the protocol and the address are used whenever they are given.
_make_url_from_data_address_first(data) ==
    IF HasKey(data, "protocol")
    THEN PROTOCOL_MAP[data.protocol] \o data.address
    ELSE data.host

\* if host := data.get(CONF_HOST): return host
\* return PROTOCOL_MAP[data[CONF_PROTOCOL]] + data[CONF_ADDRESS]
_make_url_from_data(data) ==
    IF HasKey(data, "host") /\ data.host # << >>
    THEN data.host
    ELSE PROTOCOL_MAP[data.protocol] \o data.address


\* ------------------------------------------------------------------- state

VARIABLES
    pc,               \* per flow: "init", "form" (form shown), "wait" (suspended in
                      \*   connected_event.wait()), "cancelled" (wait cancelled by the
                      \*   timer, not yet resumed), "done" (aborted or entry created:
                      \*   the flow manager has dropped the flow object)
    importing,        \* per flow: self.importing, FALSE once the flow is dropped
    user_input,       \* per flow: the user_input of the submission in flight
    via,              \* per flow: the step the submission in flight came through
    connected_event,  \* per flow: the asyncio.Event of the attempt in flight
    elapsed,          \* per flow: time units since async_timeout.timeout was entered
    expired,          \* per flow: the timer fired while the event was unset (history)
    upb,              \* per flow: the UpbPim of the attempt in flight: its url, its
                      \*   config_ok and its state, "none" (no client), "constructed",
                      \*   "open" (connect called) or "closed" (disconnect called)
    result,           \* what the step that returned last returned, and how; reset
                      \*   when a submission suspends (history)
    entries,          \* the config entries of the domain, in creation order
    origin            \* per entry: the submission that created it (history)

vars ==
    << pc, importing, user_input, via, connected_event, elapsed, expired, upb,
       result, entries, origin >>

NoClient == [state |-> "none", url |-> << >>, config_ok |-> TRUE]

\* No step has returned since the last submission suspended.
NoResult ==
    [flow |-> 0, via |-> "", importing |-> FALSE, user_input |-> NoInput,
     type |-> "", errors |-> "", reason |-> "", raised |-> "", upb |-> NoClient,
     is_set |-> FALSE, expired |-> FALSE, raised_at |-> 0, unique_id |-> "",
     host |-> << >>]

\* ConfigFlow.__init__: self.importing = False; nothing submitted, no entries.
Init ==
    /\ pc = [f \in Flows |-> "init"]
    /\ importing = [f \in Flows |-> FALSE]
    /\ user_input = [f \in Flows |-> NoInput]
    /\ via = [f \in Flows |-> ""]
    /\ connected_event = [f \in Flows |-> FALSE]
    /\ elapsed = [f \in Flows |-> 0]
    /\ expired = [f \in Flows |-> FALSE]
    /\ upb = [f \in Flows |-> NoClient]
    /\ result = NoResult
    /\ entries = << >>
    /\ origin = << >>

\* ------------------------------------------------- _url_already_configured

\* entry.data[CONF_HOST] is defined for every current entry; the set
\* comprehension raises KeyError otherwise.
ExistingHostsDefined ==
    \A i \in 1..Len(entries) : HasKey(entries[i].data, "host")

existing_hosts ==
    { Hostname(entries[i].data.host) : i \in 1..Len(entries) }

\* Variant: the URLs are compared whole instead of by hostname.
_url_already_configured_whole_url(url) ==
    url \in { entries[i].data.host : i \in 1..Len(entries) }

_url_already_configured(url) == Hostname(url) \in existing_hosts

\* ------------------------------------------------------- _validate_input

\* upb = upb_lib.UpbPim({"url": url, "UPStartExportFile": file_path}); the
\* library decides config_ok.
UpbPim(url, config_ok) ==
    [state |-> "constructed", url |-> url, config_ok |-> config_ok]

\* Variant: config_ok is not looked at.
ConfigRejected_never(client) == FALSE

\* if not upb.config_ok: raise InvalidUpbFile
ConfigRejected(client) == ~client.config_ok

\* upb.connect(_connected_callback)
connect(client) == [client EXCEPT !.state = "open"]

\* Variant: disconnect is not called.
disconnect_skipped(client) == client

\* upb.disconnect()
disconnect(client) == [client EXCEPT !.state = "closed"]

\* Variant: the timer is due one time unit early.
DeadlinePassed_early(t) == t >= VALIDATE_TIMEOUT - 1

\* async_timeout.timeout(VALIDATE_TIMEOUT): the timer is due.
DeadlinePassed(t) == t >= VALIDATE_TIMEOUT

\* Variant: the event is not looked at after the wait.
NotConnected_never(is_set) == FALSE

\* Variant: CannotConnect is raised whatever the event says.
NotConnected_always(is_set) == TRUE

\* if not connected_event.is_set(): raise CannotConnect
NotConnected(is_set) == ~is_set

\* The info dict _validate_input returns next to upb.network_id.
ValidationInfo(data) ==
    [title |-> "UPB", host |-> _make_url_from_data(data), file_path |-> data.file_path]

\* --------------------------------------------------------- async_step_user

\* Variant: no catch-all clause, the exception's name becomes the token.
ErrorToken_no_catch_all(exc) ==
    CASE exc = "CannotConnect" -> "cannot_connect"
      [] exc = "InvalidUpbFile" -> "invalid_upb_file"
      [] OTHER -> exc

\* The except clauses: the error token of each exception class.
ErrorToken(exc) ==
    CASE exc = "CannotConnect" -> "cannot_connect"
      [] exc = "InvalidUpbFile" -> "invalid_upb_file"
      [] OTHER -> "unknown"

\* config_entries.ConfigFlow._abort_if_unique_id_configured: an entry of the
\* domain already has this unique id.
UniqueIdConfigured(uid) ==
    \E i \in 1..Len(entries) : entries[i].unique_id = uid

\* Variant: _abort_if_unique_id_configured is not called.
AfterValidation_unchecked(network_id) == "create_entry"

\* await self.async_set_unique_id(network_id)
\* self._abort_if_unique_id_configured()
\* ... return self.async_create_entry(...)
AfterValidation(network_id) ==
    IF UniqueIdConfigured(network_id) THEN "abort" ELSE "create_entry"

\* The data of the entry: user_input itself when self.importing, else the
\* validated host and the file path of user_input.
EntryData(is_importing, data, info) ==
    IF is_importing
    THEN data
    ELSE [host |-> info.host, file_path |-> data.file_path]

\* Variant: _abort_if_unique_id_configured is given updates, which replace
\* the data of the entry that has the unique id.
NewEntries_updates(outcome, entry) ==
    IF outcome = "create_entry"
    THEN Append(entries, entry)
    ELSE [i \in 1..Len(entries) |->
             IF entries[i].unique_id = entry.unique_id
             THEN [entries[i] EXCEPT !.data = entry.data]
             ELSE entries[i]]

\* Variant: the hostname is looked up again before the entry is created.
NewEntries_recheck(outcome, entry) ==
    IF /\ outcome = "create_entry"
       /\ \A i \in 1..Len(entries) :
              HasKey(entries[i].data, "host") /\ HasKey(entry.data, "host") =>
                  Hostname(entries[i].data.host) # Hostname(entry.data.host)
    THEN Append(entries, entry)
    ELSE entries

\* The entries after the step: async_create_entry is the only call that
\* touches them, and it adds the new entry.
NewEntries(outcome, entry) ==
    IF outcome = "create_entry" THEN Append(entries, entry) ELSE entries

\* The step of flow f returns: the attempt's local state is gone, and the
\* flow manager drops the flow after an abort or an entry.  result records
\* the return: the step and its user_input; its type ("form", "abort",
\* "create_entry"), errors["base"] ("" when unset) and the abort reason; what
\* the try block raised and the time waited when it did; the UpbPim as it was
\* left; the event as read after disconnect; the flow's unique id ("" when
\* unset); the host of the info _validate_input returned (empty when it
\* returned none).
Return(f, step, is_importing, data, type, err, rsn, exc, client, uid, host) ==
    /\ pc' = [pc EXCEPT ![f] = IF type = "form" THEN "form" ELSE "done"]
    /\ importing' = [importing EXCEPT ![f] = type = "form" /\ is_importing]
    /\ user_input' = [user_input EXCEPT ![f] = NoInput]
    /\ via' = [via EXCEPT ![f] = ""]
    /\ connected_event' = [connected_event EXCEPT ![f] = FALSE]
    /\ elapsed' = [elapsed EXCEPT ![f] = 0]
    /\ expired' = [expired EXCEPT ![f] = FALSE]
    /\ upb' = [upb EXCEPT ![f] = NoClient]
    /\ result' = [flow |-> f, via |-> step, importing |-> is_importing,
                  user_input |-> data, type |-> type, errors |-> err,
                  reason |-> rsn, raised |-> exc, upb |-> client,
                  is_set |-> connected_event[f], expired |-> expired[f],
                  raised_at |-> IF exc = "" THEN 0 ELSE elapsed[f],
                  unique_id |-> uid, host |-> host]

\* return self.async_show_form(step_id="user", errors=errors) after exc.
ShowForm(f, step, is_importing, data, exc, client) ==
    Return(f, step, is_importing, data, "form",
           IF exc = "" THEN "" ELSE ErrorToken(exc), "", exc, client, "", << >>)

\* async_step_user(user_input) with user_input not None, up to the await in
\* _validate_input or to the step's return.
Submit(f, data, step, is_importing) ==
    /\ UNCHANGED << entries, origin >>
    /\ IF ~ExistingHostsDefined
       THEN ShowForm(f, step, is_importing, data, "KeyError", NoClient)
       ELSE IF _url_already_configured(_make_url_from_data(data))
       THEN Return(f, step, is_importing, data, "abort", "", "already_configured",
                   "", NoClient, "", << >>)
       ELSE \E config_ok \in BOOLEAN :
                LET client == UpbPim(_make_url_from_data(data), config_ok)
                IN IF ConfigRejected(client)
                   THEN ShowForm(f, step, is_importing, data, "InvalidUpbFile", client)
                   ELSE /\ pc' = [pc EXCEPT ![f] = "wait"]
                        /\ importing' = [importing EXCEPT ![f] = is_importing]
                        /\ user_input' = [user_input EXCEPT ![f] = data]
                        /\ via' = [via EXCEPT ![f] = step]
                        /\ connected_event' = [connected_event EXCEPT ![f] = FALSE]
                        /\ elapsed' = [elapsed EXCEPT ![f] = 0]
                        /\ expired' = [expired EXCEPT ![f] = FALSE]
                        /\ upb' = [upb EXCEPT ![f] = connect(client)]
                        /\ result' = NoResult

\* async_step_user(None): the empty form.
StepUserNone(f) ==
    /\ pc[f] = "init"
    /\ ShowForm(f, "user", importing[f], NoInput, "", NoClient)
    /\ UNCHANGED << entries, origin >>

\* async_step_user(user_input): the form is submitted.
StepUser(f, data) ==
    /\ pc[f] \in { "init", "form" }
    /\ Submit(f, data, "user", importing[f])

\* async_step_import(user_input): self.importing = True, then the user step.
StepImport(f, data) ==
    /\ pc[f] = "init"
    /\ Submit(f, data, "import", TRUE)

\* Variant: one event shared by all attempts (a module-level Event).
EventSet_shared(events, f) == [g \in Flows |-> TRUE]

\* connected_event.set() on the Event that the call of _validate_input for
\* flow f created.
EventSet(events, f) == [events EXCEPT ![f] = TRUE]

\* _connected_callback: connected_event.set(), any time before disconnect.
ConnectedCallback(f) ==
    /\ pc[f] \in { "wait", "cancelled" }
    /\ upb[f].state = "open"
    /\ ~connected_event[f]
    /\ connected_event' = EventSet(connected_event, f)
    /\ UNCHANGED << pc, importing, user_input, via, elapsed, expired, upb,
                    result, entries, origin >>

\* One time unit passes for every attempt that waits; no deadline is skipped.
Tick ==
    /\ \E f \in Flows : pc[f] = "wait" /\ ~connected_event[f]
    /\ \A f \in Flows : pc[f] = "wait" => ~DeadlinePassed(elapsed[f])
    /\ elapsed' = [f \in Flows |->
                      IF pc[f] = "wait" THEN elapsed[f] + 1 ELSE elapsed[f]]
    /\ UNCHANGED << pc, importing, user_input, via, connected_event, expired,
                    upb, result, entries, origin >>

\* The timer of async_timeout.timeout fires and cancels the wait; the task is
\* resumed on a later turn of the event loop.
Timeout(f) ==
    /\ pc[f] = "wait"
    /\ DeadlinePassed(elapsed[f])
    /\ pc' = [pc EXCEPT ![f] = "cancelled"]
    /\ expired' = [expired EXCEPT ![f] = ~connected_event[f]]
    /\ UNCHANGED << importing, user_input, via, connected_event, elapsed, upb,
                    result, entries, origin >>

\* Variant: the wait has no timeout around it, only the event ends it.
Woken_by_event_only(f) == pc[f] = "wait" /\ connected_event[f]

\* The wait of flow f has ended: the event was set, or the timer cancelled it.
Woken(f) ==
    \/ pc[f] = "wait" /\ connected_event[f]
    \/ pc[f] = "cancelled"

\* The task runs again, after the event was set or the wait was cancelled:
\* the rest of _validate_input and of async_step_user, which has no await
\* that suspends.
Resume(f) ==
    /\ Woken(f)
    /\ LET data == user_input[f]
           client == disconnect(upb[f])
       IN IF NotConnected(connected_event[f])
          THEN /\ ShowForm(f, via[f], importing[f], data, "CannotConnect", client)
               /\ UNCHANGED << entries, origin >>
          ELSE \E network_id \in NetworkIds :
                   LET info == ValidationInfo(data)
                       outcome == AfterValidation(network_id)
                       entry == [unique_id |-> network_id,
                                 title |-> info.title,
                                 data |-> EntryData(importing[f], data, info)]
                   IN /\ Return(f, via[f], importing[f], data, outcome, "",
                                IF outcome = "abort" THEN "already_configured" ELSE "",
                                "", client, network_id, info.host)
                      /\ entries' = NewEntries(outcome, entry)
                      /\ origin' =
                             IF outcome = "create_entry"
                             THEN Append(origin,
                                      [via |-> via[f], user_input |-> data,
                                       network_id |-> network_id])
                             ELSE origin

\* ------------------------------------------------------------ scheduling

\* No attempt is in flight: submissions are handled one at a time.
Idle == \A g \in Flows : pc[g] \notin { "wait", "cancelled" }

\* Flows are started in the order of their numbers (they are interchangeable).
InOrder(f) == \A g \in Flows : g < f => pc[g] # "init"

Next ==
    \/ \E f \in Flows : Idle /\ InOrder(f) /\ StepUserNone(f)
    \/ \E f \in Flows : \E data \in UserInputs :
           Idle /\ InOrder(f) /\ StepUser(f, data)
    \/ \E f \in Flows : \E data \in ImportInputs :
           Idle /\ InOrder(f) /\ StepImport(f, data)
    \/ \E f \in Flows : ConnectedCallback(f)
    \/ Tick
    \/ \E f \in Flows : Timeout(f)
    \/ \E f \in Flows : Resume(f)

Spec == Init /\ [][Next]_vars

\* ------------------------------------------------------------- properties

\* The URL a submission's user_input stands for.
UrlOf(data) == _make_url_from_data(data)

\* The entries as they were when the step that returned last began (no other
\* submission runs in between under Spec).
EntriesBefore ==
    IF result.type = "create_entry"
    THEN SubSeq(entries, 1, Len(entries) - 1)
    ELSE entries

\* C1: every entry has the network_id that _validate_input returned as its
\* unique id, which is also the unique id of the flow that created it, and
\* has a host field equal to the URL _make_url_from_data gives for the
\* submission.
C1_EntryMatchesValidator ==
    /\ \A i \in 1..Len(entries) :
           /\ entries[i].unique_id = origin[i].network_id
           /\ HasKey(entries[i].data, "host")
           /\ entries[i].data.host = UrlOf(origin[i].user_input)
    /\ result.type = "create_entry" =>
           result.unique_id = entries[Len(entries)].unique_id

\* C2: a submission whose URL has the hostname of the host field of an
\* existing entry ends in an abort with reason already_configured, and no
\* UpbPim was constructed for it.
C2_SameHostKeyAborts ==
    ( /\ result.flow # 0
      /\ result.user_input # NoInput
      /\ \E i \in 1..Len(EntriesBefore) :
             /\ HasKey(EntriesBefore[i].data, "host")
             /\ Hostname(EntriesBefore[i].data.host) = Hostname(UrlOf(result.user_input)) )
    => /\ result.type = "abort"
       /\ result.reason = "already_configured"
       /\ result.upb = NoClient

\* C3 as stated: whenever a submission constructed an UpbPim, the client has
\* been disconnected by the time _validate_input returned or raised.
C3_ClientClosedOnEveryExit ==
    result.upb.state # "none" => result.upb.state = "closed"

\* C3 as amended: no exit of _validate_input leaves a client on which connect
\* was called without disconnect having been called (the timeout exit and
\* the connected exit both end closed); the invalid-file exit, and only it,
\* leaves a client that was neither connected nor disconnected; no client
\* stays open outside an attempt in flight.
C3_ClientClosedOnceConnected ==
    /\ result.upb.state \in { "none", "constructed", "closed" }
    /\ result.upb.state = "constructed" <=> result.raised = "InvalidUpbFile"
    /\ (result.raised = "CannotConnect" \/ result.unique_id # "") =>
           result.upb.state = "closed"
    /\ \A f \in Flows : upb[f].state # "none" =>
           upb[f].state = "open" /\ pc[f] \in { "wait", "cancelled" }

C3_Witness ==
    /\ result.type = "create_entry"
    /\ result.upb.state = "closed"

\* C4 as stated: when the timer fired while the event was unset, the
\* submission ends with CannotConnect raised after disconnect and the form
\* shown again with cannot_connect, the client closed and no entry created.
C4_DeadlineMeansCannotConnect ==
    result.expired =>
        /\ result.raised = "CannotConnect"
        /\ result.type = "form"
        /\ result.errors = "cannot_connect"
        /\ result.upb.state = "closed"

\* C4 as amended: when the event is still unset as _validate_input reads it
\* after the wait and the disconnect, the timer has fired, CannotConnect is
\* raised, the form is shown again with cannot_connect, the client is closed
\* and no entry is created.
C4_UnsetAfterWaitMeansCannotConnect ==
    ( /\ result.upb.state \in { "open", "closed" }
      /\ ~result.is_set )
    => /\ result.expired
       /\ result.raised = "CannotConnect"
       /\ result.type = "form"
       /\ result.errors = "cannot_connect"
       /\ result.upb.state = "closed"
       /\ EntriesBefore = entries

C4_Witness ==
    /\ result.expired
    /\ ~result.is_set
    /\ result.errors = "cannot_connect"

\* C5: a client whose config_ok is false is never connected: the submission
\* raises InvalidUpbFile with the client as constructed and shows the form
\* again with invalid_upb_file.
C5_InvalidFileNeverConnects ==
    /\ \A f \in Flows : upb[f].config_ok
    /\ ~result.upb.config_ok =>
           /\ result.upb.state = "constructed"
           /\ result.raised = "InvalidUpbFile"
           /\ result.type = "form"
           /\ result.errors = "invalid_upb_file"

C5_Witness ==
    /\ ~result.upb.config_ok
    /\ result.raised = "InvalidUpbFile"

\* C6: a submission whose validation returns the unique id of an existing
\* entry aborts with already_configured and leaves the entries as they were.
C6_SameIdentifierAborts ==
    [][ \A f \in Flows :
            ( /\ pc[f] \in { "wait", "cancelled" }
              /\ pc'[f] = "done"
              /\ \E i \in 1..Len(entries) : entries[i].unique_id = result'.unique_id )
            => /\ result'.type = "abort"
               /\ result'.reason = "already_configured"
               /\ entries' = entries ]_vars

\* The abort comes after a validation under a hostname other than that of
\* the entry with the same unique id.
C6_Witness ==
    /\ result.type = "abort"
    /\ \E i \in 1..Len(entries) :
           /\ entries[i].unique_id = result.unique_id
           /\ HasKey(entries[i].data, "host")
           /\ Hostname(entries[i].data.host) # Hostname(UrlOf(result.user_input))

\* C7: with submissions handled one at a time from no entries, no two
\* entries have the same unique id and no two have host fields with the same
\* hostname.
C7_EntriesDistinct ==
    \A i, j \in 1..Len(entries) :
        i # j =>
            /\ entries[i].unique_id # entries[j].unique_id
            /\ (HasKey(entries[i].data, "host") /\ HasKey(entries[j].data, "host")) =>
                   Hostname(entries[i].data.host) # Hostname(entries[j].data.host)

C7_Witness ==
    /\ Len(entries) = 2
    /\ \A i \in 1..Len(entries) : HasKey(entries[i].data, "host")

C9_EntryDataByStep ==
    \A i \in 1..Len(entries) :
        /\ origin[i].via = "user" =>
               entries[i].data = [host |-> UrlOf(origin[i].user_input),
                                  file_path |-> origin[i].user_input.file_path]
        /\ origin[i].via = "import" => entries[i].data = origin[i].user_input

\* C10: CannotConnect is raised only when the wait has lasted
\* VALIDATE_TIMEOUT time units: the wait is cancelled at that time, never
\* before, and no wait lasts longer.
C10_CannotConnectOnlyAtDeadline ==
    /\ result.raised = "CannotConnect" => result.raised_at = VALIDATE_TIMEOUT
    /\ \A f \in Flows :
           /\ elapsed[f] <= VALIDATE_TIMEOUT
           /\ pc[f] = "cancelled" => elapsed[f] = VALIDATE_TIMEOUT

C10_Witness ==
    /\ result.raised = "CannotConnect"
    /\ result.raised_at = VALIDATE_TIMEOUT

\* C11: a step leaves the entries as they are, or returns an entry and adds
\* exactly that one after the entries there were; a step that returns a form
\* or an abort leaves them as they are.
C11_EntriesOnlyAppended ==
    [][ IF entries' # entries
        THEN /\ result'.type = "create_entry"
             /\ Len(entries') = Len(entries) + 1
             /\ SubSeq(entries', 1, Len(entries)) = entries
        ELSE result' # result => result'.type \in { "", "form", "abort" } ]_vars

\* An entry is added to one that was there, after an abort had left it alone.
C11_Witness ==
    /\ result.type = "create_entry"
    /\ Len(entries) = 2

\* The URL of a submission as C12 states it: the explicit host when there is
\* a non-empty one, else the prefix of the protocol followed by the address.
StatedUrl(data) ==
    IF HasKey(data, "host") /\ Len(data.host) > 0
    THEN data.host
    ELSE (IF data.protocol = "TCP"
          THEN <<"tcp", ":", "/", "/">>
          ELSE <<"serial", ":", "/", "/">>) \o data.address

\* C12: the URL of a submission is its explicit host, protocol and address
\* ignored, when it has one, else prefix and address; the UpbPim is built
\* with that URL, the validator returns it as host, and the hostname check
\* against the entries is made with it.
C12_OneUrlEverywhere ==
    /\ \A f \in Flows : upb[f].state # "none" => upb[f].url = StatedUrl(user_input[f])
    /\ result.upb.state # "none" => result.upb.url = StatedUrl(result.user_input)
    /\ result.unique_id # "" => result.host = StatedUrl(result.user_input)
    /\ ( /\ result.user_input # NoInput
         /\ \A i \in 1..Len(EntriesBefore) : HasKey(EntriesBefore[i].data, "host") )
       => ( (result.type = "abort" /\ result.unique_id = "")
            <=> \E i \in 1..Len(EntriesBefore) :
                    Hostname(EntriesBefore[i].data.host)
                        = Hostname(StatedUrl(result.user_input)) )

\* A submission that has a host, a protocol and an address was validated.
C12_Witness ==
    /\ result.unique_id # ""
    /\ HasKey(result.user_input, "host")
    /\ HasKey(result.user_input, "protocol")

\* C16: after the wait, _validate_input returns if and only if the event is
\* set as read after disconnect, and raises CannotConnect if and only if it
\* is unset, also when the timer had fired before the event was set.
C16_OutcomeByEventAfterWait ==
    result.upb.state \in { "open", "closed" } =>
        /\ result.is_set <=> (result.raised = "" /\ result.unique_id # "")
        /\ ~result.is_set <=> (result.raised = "CannotConnect" /\ result.unique_id = "")

\* The timer fired with the event unset, the callback came before the task
\* resumed, and the attempt succeeded.
C16_Witness ==
    /\ result.expired
    /\ result.is_set
    /\ result.type = "create_entry"

\* C17: every entry has a host field, and the hostname check of a
\* submission never raises.
C17_EveryEntryHasHost ==
    /\ \A i \in 1..Len(entries) : HasKey(entries[i].data, "host")
    /\ result.raised # "KeyError"

\* ---------------------------------------------------------------- fairness

\* The event loop keeps running: the clock advances, a timer that is due
\* fires, and a task that was woken runs.  The device owes no answer, so the
\* callback has no fairness.
SpecFair ==
    /\ Spec
    /\ WF_vars(Tick)
    /\ \A f \in Flows : WF_vars(Timeout(f)) /\ WF_vars(Resume(f))

\* C13: every call of _validate_input that suspends (one at a time under
\* Spec, so the flows are Idle again when it has ended) is resumed and ends,
\* never waiting past VALIDATE_TIMEOUT, and a call that got as far as the UpbPim
\* ends in exactly one of a returned result, InvalidUpbFile and CannotConnect.
C13_ValidateInputTerminates ==
    /\ ~Idle ~> Idle
    /\ [] \A f \in Flows : elapsed[f] <= VALIDATE_TIMEOUT
    /\ [] ( result.upb.state # "none" =>
              \/ /\ result.raised = ""
                 /\ result.unique_id # ""
                 /\ result.host # << >>
              \/ /\ result.raised \in { "InvalidUpbFile", "CannotConnect" }
                 /\ result.unique_id = ""
                 /\ result.host = << >> )

\* An attempt waited the whole VALIDATE_TIMEOUT and its wait was cancelled.
C13_Witness ==
    \E f \in Flows :
        /\ pc[f] = "cancelled"
        /\ elapsed[f] = VALIDATE_TIMEOUT
        /\ ~connected_event[f]

\* ------------------------------------------------------------- concurrency

\* The attempt of flow f is suspended in _validate_input.
InFlight(f) == pc[f] \in { "wait", "cancelled" }

\* A step may begin while the attempt of one other flow is suspended, so that
\* up to two attempts are in flight together.
OneOtherInFlight(f) ==
    \A g, h \in Flows \ { f } : InFlight(g) /\ InFlight(h) => g = h

\* The waiting time left to the attempt of flow f.
Remaining(f) == VALIDATE_TIMEOUT - elapsed[f]

\* Time passes until the next timer is due: the clock of the interleaved
\* steps, where what matters is the order of the timers and not the time
\* between them.
TickToDeadline ==
    /\ \E f \in Flows : pc[f] = "wait" /\ ~connected_event[f]
    /\ \A f \in Flows : pc[f] = "wait" => ~DeadlinePassed(elapsed[f])
    /\ \E f \in Flows :
           /\ pc[f] = "wait"
           /\ \A g \in Flows : pc[g] = "wait" => Remaining(f) <= Remaining(g)
           /\ elapsed' = [g \in Flows |->
                             IF pc[g] = "wait"
                             THEN elapsed[g] + Remaining(f)
                             ELSE elapsed[g]]
    /\ UNCHANGED << pc, importing, user_input, via, connected_event, expired,
                    upb, result, entries, origin >>

\* The steps of different flows interleave at the await of _validate_input.
NextConc ==
    \/ \E f \in Flows : OneOtherInFlight(f) /\ InOrder(f) /\ StepUserNone(f)
    \/ \E f \in Flows : \E data \in UserInputs :
           OneOtherInFlight(f) /\ InOrder(f) /\ StepUser(f, data)
    \/ \E f \in Flows : \E data \in ImportInputs :
           OneOtherInFlight(f) /\ InOrder(f) /\ StepImport(f, data)
    \/ \E f \in Flows : ConnectedCallback(f)
    \/ TickToDeadline
    \/ \E f \in Flows : Timeout(f)
    \/ \E f \in Flows : Resume(f)

SpecConc == Init /\ [][NextConc]_vars

\* C14: each attempt in flight has a connected_event of its own: a step that
\* sets the event of one attempt leaves the event of every other attempt as
\* it was, and an attempt returns a result only with its own event set and
\* raises CannotConnect only with its own event unset.
C14_EventPerAttempt ==
    [][ /\ \A f, g \in Flows :
               (f # g /\ connected_event'[g] /\ ~connected_event[g]) =>
                   connected_event'[f] = connected_event[f]
        /\ \A f \in Flows :
               (InFlight(f) /\ ~InFlight(f)') =>
                   /\ result'.flow = f
                   /\ result'.unique_id # "" <=> connected_event[f]
                   /\ result'.raised = "CannotConnect" <=> ~connected_event[f] ]_vars

\* An attempt ended with CannotConnect while the event of another attempt in
\* flight was set.
C14_Witness ==
    \E g \in Flows :
        /\ g # result.flow
        /\ InFlight(g)
        /\ connected_event[g]
        /\ result.raised = "CannotConnect"

\* C15: the hostname is looked up when a submission begins and not again
\* after the wait: a submission that begins does not suspend when an entry
\* has its hostname, and an attempt that is resumed with a network_id no
\* entry has adds its entry whatever hostnames the entries have by then.
C15_HostCheckedOnlyAtStart ==
    [][ \A f \in Flows :
            /\ (~InFlight(f) /\ InFlight(f)') =>
                   /\ ExistingHostsDefined
                   /\ ~_url_already_configured(upb'[f].url)
            /\ ( /\ InFlight(f) /\ ~InFlight(f)'
                 /\ result'.unique_id # ""
                 /\ ~UniqueIdConfigured(result'.unique_id) ) =>
                   /\ result'.type = "create_entry"
                   /\ Len(entries') = Len(entries) + 1
                   /\ entries'[Len(entries')].unique_id = result'.unique_id ]_vars

\* Two flows that interleaved have each created an entry: the entries have
\* the same hostname and different unique ids.
C15_Witness ==
    /\ Len(entries) = 2
    /\ \A i \in 1..Len(entries) : HasKey(entries[i].data, "host")
    /\ Hostname(entries[1].data.host) = Hostname(entries[2].data.host)
    /\ entries[1].unique_id # entries[2].unique_id

=============================================================================




